---- MODULE Spec2Model ----
(***************************************************************************)
(* Model of linux-visualizer (src/main.rs): the one-shot scan of /proc     *)
(* that builds App.processes (parse_processes, parse_stats) and the        *)
(* per-frame filtering of that list by the search text (App::update,       *)
(* Process::contains).                                                     *)
(*                                                                         *)
(* Files and Rust Strings are sequences of bytes (0..255).  A String is a  *)
(* byte sequence that passed UTF-8 validation.  A panic (every unwrap()    *)
(* and panic!() of the source) aborts the program: pc = "panic" and no     *)
(* action is enabled afterwards.                                           *)
(***************************************************************************)
EXTENDS Integers, Sequences, FiniteSets, TLC

VARIABLES
    proc,         \* the directory /proc as read_dir enumerates it (environment)
    idx,          \* position of the read_dir iterator: next entry to visit
    processes,    \* the Vec<Process>: parse_processes' local, then App.processes
    pc,           \* "scan" (inside parse_processes), "gui" (frame loop), "panic"
    search_text,  \* App.search_text
    view,         \* the local `processes` of the last frame: what show_rows lists
    rendered      \* TRUE once a frame has been rendered

vars == <<proc, idx, processes, pc, search_text, view, rendered>>

----------------------------------------------------------------------------
(* Byte notation *)

\* The printable ASCII characters in code order: 32 (space) to 95, and 97 to 126.
AsciiLow == " !\"#$%&'()*+,-./0123456789:;<=>?@ABCDEFGHIJKLMNOPQRSTUVWXYZ[\\]^_"
AsciiHigh == "abcdefghijklmnopqrstuvwxyz{|}~"

\* The byte of a one-character literal, as Rust's b'c'.
Ord(c) ==
    IF \E i \in 1..Len(AsciiLow) : SubSeq(AsciiLow, i, i) = c
    THEN 31 + (CHOOSE i \in 1..Len(AsciiLow) : SubSeq(AsciiLow, i, i) = c)
    ELSE 96 + (CHOOSE i \in 1..Len(AsciiHigh) : SubSeq(AsciiHigh, i, i) = c)

\* The bytes of an ASCII string literal.
Bytes(s) == [i \in 1..Len(s) |-> Ord(SubSeq(s, i, i))]

NUL == 0
SP == Ord(" ")
LPAREN == Ord("(")
RPAREN == Ord(")")

MinOf(S) == CHOOSE i \in S : \A j \in S : i <= j
MaxOf(S) == CHOOSE i \in S : \A j \in S : i >= j

\* Result<T, E> / the outcome of an expression that may panic.
Ok(v) == [ok |-> TRUE, val |-> v]
Err == [ok |-> FALSE]

----------------------------------------------------------------------------
(* Standard-library functions the source calls, modelled by what they do *)

IsCont(b) == b >= 128 /\ b <= 191

\* Length of the well-formed UTF-8 sequence starting at s[i], 0 if there is none.
Utf8Width(s, i) ==
    LET b == s[i]
        c(k) == i + k <= Len(s) /\ IsCont(s[i + k])
        r(k, lo, hi) == i + k <= Len(s) /\ s[i + k] >= lo /\ s[i + k] <= hi
    IN  CASE b < 128 -> 1
          [] b >= 194 /\ b <= 223 -> IF c(1) THEN 2 ELSE 0
          [] b = 224 -> IF r(1, 160, 191) /\ c(2) THEN 3 ELSE 0
          [] (b >= 225 /\ b <= 236) \/ b = 238 \/ b = 239 ->
                IF c(1) /\ c(2) THEN 3 ELSE 0
          [] b = 237 -> IF r(1, 128, 159) /\ c(2) THEN 3 ELSE 0
          [] b = 240 -> IF r(1, 144, 191) /\ c(2) /\ c(3) THEN 4 ELSE 0
          [] b >= 241 /\ b <= 243 -> IF c(1) /\ c(2) /\ c(3) THEN 4 ELSE 0
          [] b = 244 -> IF r(1, 128, 143) /\ c(2) /\ c(3) THEN 4 ELSE 0
          [] OTHER -> 0

RECURSIVE Utf8From(_, _)
Utf8From(s, i) ==
    IF i > Len(s) THEN TRUE
    ELSE LET w == Utf8Width(s, i) IN IF w = 0 THEN FALSE ELSE Utf8From(s, i + w)

\* String::from_utf8(bytes).is_ok(); also the check inside fs::read_to_string.
ValidUtf8(s) == Utf8From(s, 1)

\* str::is_char_boundary(i), i a 0-based byte offset into a valid String.
IsCharBoundary(s, i) == i = 0 \/ i = Len(s) \/ (i < Len(s) /\ ~IsCont(s[i + 1]))

\* char::is_whitespace on the ASCII range (the inputs of this model hold no
\* multi-byte white space).
IsWhitespace(b) == (b >= 9 /\ b <= 13) \/ b = SP

\* str::trim
trim(s) ==
    LET keep == {i \in 1..Len(s) : ~IsWhitespace(s[i])}
    IN  IF keep = {} THEN <<>> ELSE SubSeq(s, MinOf(keep), MaxOf(keep))

IsDigit(b) == b >= Ord("0") /\ b <= Ord("9")

RECURSIVE DigitsValue(_)
DigitsValue(s) ==
    IF s = <<>> THEN 0
    ELSE 10 * DigitsValue(SubSeq(s, 1, Len(s) - 1)) + (s[Len(s)] - Ord("0"))

\* str::parse::<u64>: an optional '+', then one or more decimal digits.  (The
\* overflow error needs 20 digits; names and pid fields here have at most 4.)
parse_u64(s) ==
    LET digits == IF s # <<>> /\ s[1] = Ord("+") THEN Tail(s) ELSE s
    IN  IF digits # <<>> /\ \A i \in 1..Len(digits) : IsDigit(digits[i])
        THEN Ok(DigitsValue(digits))
        ELSE Err

\* u64::to_string
RECURSIVE to_string(_)
to_string(n) ==
    IF n < 10 THEN <<Ord("0") + n>>
    ELSE to_string(n \div 10) \o <<Ord("0") + (n % 10)>>

\* str::contains(&str): the needle occurs as a contiguous run of bytes.
str_contains(haystack, needle) ==
    \E i \in 0..(Len(haystack) - Len(needle)) :
        SubSeq(haystack, i + 1, i + Len(needle)) = needle

\* str::replace(from: char, to: &str) for a one-byte char and a one-byte string.
replace(s, from, to) == [i \in 1..Len(s) |-> IF s[i] = from THEN to ELSE s[i]]

\* BufRead::read_until on a Cursor at offset pos: the bytes up to and including
\* the first delim, or up to the end of the buffer.
read_until(buf, pos, delim) ==
    LET hits == {i \in (pos + 1)..Len(buf) : buf[i] = delim}
        end == IF hits = {} THEN Len(buf) ELSE MinOf(hits)
    IN  [data |-> SubSeq(buf, pos + 1, end), pos |-> end]

----------------------------------------------------------------------------
(* parse_stats *)

\* The match on the state byte with the arms of Z and T exchanged.
match_state_swapped(b) ==
    CASE b = Ord("R") -> Ok("Running")
      [] b = Ord("S") -> Ok("Sleeping")
      [] b = Ord("D") -> Ok("UninterruptibleSleeping")
      [] b = Ord("Z") -> Ok("Stopped")
      [] b = Ord("T") -> Ok("Zombie")
      [] b = Ord("I") -> Ok("Idle")
      [] OTHER -> Err

\* The match on the state byte.
match_state(b) ==
    CASE b = Ord("R") -> Ok("Running")
      [] b = Ord("S") -> Ok("Sleeping")
      [] b = Ord("D") -> Ok("UninterruptibleSleeping")
      [] b = Ord("Z") -> Ok("Zombie")
      [] b = Ord("T") -> Ok("Stopped")
      [] b = Ord("I") -> Ok("Idle")
      [] OTHER -> Err

\* parse_stats on the stat file of an entry: Ok(ProcessStats) or Err for a panic.
parse_stats(file) ==
    IF ~file.readable THEN Err                          \* fs::read(..).unwrap()
    ELSE
    LET bytes == file.bytes
        r1 == read_until(bytes, 0, SP)
        p == parse_u64(trim(r1.data))
        r2 == read_until(bytes, r1.pos, RPAREN)
        n == Len(r2.data)
        r3 == read_until(bytes, r2.pos, SP)
    IN  IF ~ValidUtf8(r1.data) \/ ~p.ok THEN Err
        ELSE IF ~ValidUtf8(r2.data) THEN Err
        ELSE IF n < 2 \/ ~IsCharBoundary(r2.data, 1)
                      \/ ~IsCharBoundary(r2.data, n - 1) THEN Err   \* tcomm[1..len-1]
        ELSE IF r3.pos >= Len(bytes) THEN Err           \* read_exact: UnexpectedEof
        ELSE LET st == match_state(bytes[r3.pos + 1])
             IN  IF ~st.ok THEN Err
                 ELSE Ok([_pid |-> p.val,
                          tcomm |-> SubSeq(r2.data, 2, n - 1),
                          state |-> st.val])

----------------------------------------------------------------------------
(* Process, parse_processes *)

\* ProcessStats::contains
stats_contains(stats, text) == str_contains(stats.tcomm, text)

\* Process::contains without its last disjunct: the tcomm is not searched.
contains_without_tcomm(p, text) ==
    \/ str_contains(to_string(p.pid), text)
    \/ str_contains(p.cmdline, text)

\* Process::contains
contains(p, text) ==
    \/ str_contains(to_string(p.pid), text)
    \/ str_contains(p.cmdline, text)
    \/ stats_contains(p.stats, text)

\* The outcome of one iteration of the loop over read_dir("/proc").
Panic == [kind |-> "panic"]
Skip == [kind |-> "skip"]
Push(p) == [kind |-> "push", process |-> p]

\* The loop body with `.parse::<u64>().unwrap()` in place of `if let Ok(pid)`:
\* a name that is no number aborts the scan.
scan_entry_unwrap(entry) ==
    IF entry.err THEN Panic
    ELSE IF ~ValidUtf8(entry.name) THEN Panic
    ELSE
    LET pid == parse_u64(entry.name)
        stats == parse_stats(entry.stat)
    IN  IF ~pid.ok THEN Panic
        ELSE IF ~entry.cmdline.readable \/ ~ValidUtf8(entry.cmdline.bytes)
             THEN Panic
        ELSE IF ~stats.ok THEN Panic
        ELSE Push([pid |-> pid.val,
                   cmdline |-> replace(entry.cmdline.bytes, NUL, SP),
                   stats |-> stats.val])

\* The body of the loop of parse_processes for one directory entry.
scan_entry(entry) ==
    IF entry.err THEN Panic                           \* Err(err) => panic!
    ELSE IF ~ValidUtf8(entry.name) THEN Panic         \* into_string().unwrap()
    ELSE
    LET pid == parse_u64(entry.name)
        stats == parse_stats(entry.stat)
    IN  IF ~pid.ok THEN Skip                          \* if let Ok(pid) = ..
        ELSE IF ~entry.cmdline.readable \/ ~ValidUtf8(entry.cmdline.bytes)
             THEN Panic                               \* read_to_string(..).unwrap()
        ELSE IF ~stats.ok THEN Panic
        ELSE Push([pid |-> pid.val,
                   cmdline |-> replace(entry.cmdline.bytes, NUL, SP),
                   stats |-> stats.val])

\* The list a frame shows, collected back to front.
visible_processes_reversed(ps, text) ==
    LET kept == IF text = <<>> THEN ps
                ELSE SelectSeq(ps, LAMBDA p : contains(p, text))
    IN  [i \in 1..Len(kept) |-> kept[Len(kept) + 1 - i]]

\* The list a frame shows: the local `processes` of the CentralPanel closure.
visible_processes(ps, text) ==
    IF text = <<>> THEN ps
    ELSE SelectSeq(ps, LAMBDA p : contains(p, text))

----------------------------------------------------------------------------
(* The inputs: what /proc holds, and what the user types *)

MaxEntries == 3      \* entries of a hand-picked /proc directory
MaxTcommLen == 2     \* bytes between the parentheses of a generated stat line
MaxCmdlineLen == 2   \* bytes of a generated cmdline file

SeqsUpTo(A, n) == UNION {[1..k -> A] : k \in 0..n}

File(b) == [readable |-> TRUE, bytes |-> b]
Unreadable == [readable |-> FALSE, bytes |-> <<>>]
Entry(name, cmdline, stat) ==
    [err |-> FALSE, name |-> Bytes(name), cmdline |-> cmdline, stat |-> stat]
\* An entry for which the read_dir iterator yields Err.
ErrEntry == [err |-> TRUE, name |-> <<>>, cmdline |-> Unreadable, stat |-> Unreadable]

\* Hand-picked entries: live processes, a kernel thread, a non-numeric entry, a
\* process that exited before its files were read, names with ')' and bytes that
\* are not UTF-8, a state byte outside the table, an entry read_dir fails on.
Candidates ==
    { Entry("10", File(Bytes("ssh") \o <<NUL>>), File(Bytes("10 (ssh) S 1 10"))),
      Entry("101", File(Bytes("bash") \o <<NUL>>), File(Bytes("101 (bash) S 10 101"))),
      Entry("22", File(Bytes("nginx: worker")), File(Bytes("22 (nginx) R 1 22"))),
      Entry("7", File(<<>>), File(Bytes("7 (kworker/0:0-events) I 2 0"))),
      Entry("self", Unreadable, Unreadable),
      Entry("5", Unreadable, Unreadable),
      Entry("9", File(Bytes("x") \o <<NUL>>), File(Bytes("9 (x) Q 1 9"))),
      Entry("4242", File(Bytes("w") \o <<NUL>>), File(Bytes("4242 (weird )name ) R 1 4242"))),
      Entry("6", File(<<255, NUL>>), File(Bytes("6 (a) S 1 6"))),
      Entry("8", File(Bytes("a") \o <<NUL>>), File(Bytes("8 (") \o <<255>> \o Bytes(") S 1 8"))),
      ErrEntry }

\* Directories of distinct hand-picked entries, in any enumeration order.
PickedDirs ==
    {d \in SeqsUpTo(Candidates, MaxEntries) :
        \A i, j \in 1..Len(d) : d[i].name = d[j].name => i = j}

TcommAlphabet == {Ord("a"), SP, LPAREN, RPAREN, 255}
StateBytes == {Ord("R"), Ord("S"), Ord("D"), Ord("Z"), Ord("T"), Ord("I"),
               Ord("Q"), Ord("t")}

\* Stat files `7 (<tcomm>) <state> 1`, and two truncated ones.
StatBlobs ==
    {Bytes("7 (") \o t \o <<RPAREN, SP, b>> \o Bytes(" 1") :
        t \in SeqsUpTo(TcommAlphabet, MaxTcommLen), b \in StateBytes}
    \cup {Bytes("7 (a)"), Bytes("7 (a) ")}

CmdlineAlphabet == {Ord("a"), NUL, SP, 255}
CmdlineBlobs ==
    SeqsUpTo(CmdlineAlphabet, MaxCmdlineLen)
    \cup {Bytes("python3") \o <<NUL>> \o Bytes("-m") \o <<NUL>>
            \o Bytes("http.server") \o <<NUL>>}

\* Directories holding the one process 7, with a generated stat or cmdline file.
SingleDirs ==
    {<<Entry("7", File(Bytes("a") \o <<NUL>>), File(b))>> : b \in StatBlobs}
    \cup {<<Entry("7", File(c), File(Bytes("7 (a) S 1")))>> : c \in CmdlineBlobs}

ProcDirs == PickedDirs \cup SingleDirs

\* Texts the search field can hold.
Needles ==
    {<<>>, Bytes("10"), Bytes("1"), Bytes("s"), Bytes("S"), Bytes("a "),
     Bytes("nginx")}

----------------------------------------------------------------------------
(* The program *)

Init ==
    /\ proc \in ProcDirs
    /\ idx = 1
    /\ processes = <<>>
    /\ pc = "scan"
    /\ search_text = <<>>
    /\ view = <<>>
    /\ rendered = FALSE

\* One iteration of `for entry in read_dir("/proc")`.
ScanEntry ==
    /\ pc = "scan"
    /\ idx <= Len(proc)
    /\ LET o == scan_entry(proc[idx])
       IN  CASE o.kind = "panic" ->
                  /\ pc' = "panic"
                  /\ UNCHANGED <<idx, processes>>
             [] o.kind = "skip" ->
                  /\ idx' = idx + 1
                  /\ UNCHANGED <<pc, processes>>
             [] o.kind = "push" ->
                  /\ processes' = Append(processes, o.process)
                  /\ idx' = idx + 1
                  /\ UNCHANGED pc
    /\ UNCHANGED <<proc, search_text, view, rendered>>

\* The loop ends: parse_processes returns and App::default builds the App.
AppDefault ==
    /\ pc = "scan"
    /\ idx > Len(proc)
    /\ pc' = "gui"
    /\ search_text' = <<>>
    /\ UNCHANGED <<proc, idx, processes, view, rendered>>

\* App::update keeping the list of the first frame instead of filtering anew.
update_stale(text) ==
    /\ pc = "gui"
    /\ search_text' = text
    /\ view' = IF rendered THEN view ELSE visible_processes(processes, text)
    /\ rendered' = TRUE
    /\ UNCHANGED <<proc, idx, processes, pc>>

\* App::update filtering self.processes in place (retain) instead of a clone.
update_retain(text) ==
    /\ pc = "gui"
    /\ search_text' = text
    /\ processes' = visible_processes(processes, text)
    /\ view' = processes'
    /\ rendered' = TRUE
    /\ UNCHANGED <<proc, idx, pc>>

\* App::update, one frame: the TextEdit leaves the text at `text` (the same text
\* when nothing was typed), then the list is computed and shown.
update(text) ==
    /\ pc = "gui"
    /\ search_text' = text
    /\ view' = visible_processes(processes, text)
    /\ rendered' = TRUE
    /\ UNCHANGED <<proc, idx, processes, pc>>

Update == \E text \in Needles : update(text)

Next == ScanEntry \/ AppDefault \/ Update

Spec == Init /\ [][Next]_vars

----------------------------------------------------------------------------
(* What the specification says, stated independently of the code above *)

\* w occurs in h as a contiguous run of bytes.
Occurs(w, h) == \E a, b \in 0..Len(h) : a <= b /\ SubSeq(h, a + 1, b) = w

\* The needle occurs in the decimal PID, the cmdline or the tcomm.
Matches(p, w) ==
    Occurs(w, to_string(p.pid)) \/ Occurs(w, p.cmdline) \/ Occurs(w, p.stats.tcomm)

FilterBy(S, w) == SelectSeq(S, LAMBDA p : Matches(p, w))

\* A name made of decimal digits only.
IsDecimalName(name) ==
    name # <<>> /\ \A i \in 1..Len(name) : name[i] \in {Ord(c) : c \in
        {"0", "1", "2", "3", "4", "5", "6", "7", "8", "9"}}

\* The entries the scan has dealt with: those before the iterator, and the one
\* it aborted on.
Visited == {k \in 1..Len(proc) : k < idx \/ (k = idx /\ pc = "panic")}

\* The records of the snapshot built from entry e.
RecordsOf(e) == {j \in 1..Len(processes) : to_string(processes[j].pid) = e.name}

\* The state table of section 4.2.
StateTable ==
    (Ord("R") :> "Running") @@ (Ord("S") :> "Sleeping")
    @@ (Ord("D") :> "UninterruptibleSleeping") @@ (Ord("T") :> "Stopped")
    @@ (Ord("Z") :> "Zombie") @@ (Ord("I") :> "Idle")

StateVariants == {StateTable[b] : b \in DOMAIN StateTable}

\* Section 4.2 on a stat line: the first space, the first '(' after it, the
\* last ')' of the line.
FirstSpace(s) == MinOf({i \in 1..Len(s) : s[i] = SP})
FirstLParen(s) == MinOf({i \in (FirstSpace(s) + 1)..Len(s) : s[i] = LPAREN})
LastRParen(s) == MaxOf({i \in 1..Len(s) : s[i] = RPAREN})

\* The line has the form `<pid> (<tcomm>) <state> <rest>`.
CanonicalStat(s) ==
    /\ \E i \in 1..Len(s) : s[i] = SP
    /\ IsDecimalName(SubSeq(s, 1, FirstSpace(s) - 1))
    /\ FirstSpace(s) < Len(s) /\ s[FirstSpace(s) + 1] = LPAREN
    /\ \E i \in 1..Len(s) : s[i] = RPAREN
    /\ LastRParen(s) > FirstLParen(s)
    /\ LastRParen(s) + 2 <= Len(s)
    /\ s[LastRParen(s) + 1] = SP

SpecTcomm(s) == SubSeq(s, FirstLParen(s) + 1, LastRParen(s) - 1)
SpecStateByte(s) == s[LastRParen(s) + 2]

\* A numeric entry whose two files can be read.
ReadableEntry(e) ==
    ~e.err /\ IsDecimalName(e.name) /\ e.cmdline.readable /\ e.stat.readable

\* A per-PID step fails: a file of the PID cannot be read, or its stat line is
\* not of the form of section 4.2 or has a state byte outside the table.
PerPidFailure(e) ==
    /\ ~e.err /\ IsDecimalName(e.name)
    /\ \/ ~e.cmdline.readable
       \/ ~e.stat.readable
       \/ ~CanonicalStat(e.stat.bytes)
       \/ SpecStateByte(e.stat.bytes) \notin DOMAIN StateTable

\* Section 4.1 on a cmdline file: NUL to space, trailing spaces trimmed.
RECURSIVE TrimEnd(_)
TrimEnd(s) ==
    IF s # <<>> /\ s[Len(s)] = SP THEN TrimEnd(SubSeq(s, 1, Len(s) - 1)) ELSE s

SpecCmdline(b) == TrimEnd([i \in 1..Len(b) |-> IF b[i] = NUL THEN SP ELSE b[i]])

\* Lossy decoding: every byte that starts no well-formed sequence becomes
\* U+FFFD (EF BF BD).
RECURSIVE LossyFrom(_, _)
LossyFrom(s, i) ==
    IF i > Len(s) THEN <<>>
    ELSE LET w == Utf8Width(s, i)
         IN  IF w = 0 THEN <<239, 191, 189>> \o LossyFrom(s, i + 1)
             ELSE SubSeq(s, i, i + w - 1) \o LossyFrom(s, i + w)

Lossy(file) == [file EXCEPT !.bytes = LossyFrom(file.bytes, 1)]

----------------------------------------------------------------------------
(* Claims *)

\* C1: in a frame, a process of the snapshot is listed if and only if the search
\* text occurs, byte for byte, in its decimal PID, its cmdline or its tcomm (so
\* the empty text lists every process); nothing else is listed.
C1_ListedIffMatches ==
    rendered =>
        /\ \A i \in 1..Len(processes) :
              (\E j \in 1..Len(view) : view[j] = processes[i])
                  <=> Matches(processes[i], search_text)
        /\ \A j \in 1..Len(view) : \E i \in 1..Len(processes) : view[j] = processes[i]

\* C1 witness: the text "s" lists the kernel thread 7 through its tcomm alone,
\* and leaves another process out.
C1_Witness ==
    /\ rendered /\ search_text = Bytes("s")
    /\ \E j \in 1..Len(view) :
          /\ view[j].cmdline = <<>>
          /\ Occurs(Bytes("s"), view[j].stats.tcomm)
    /\ Len(view) < Len(processes)

\* C2: a stat line `<pid> (<tcomm>) <state> <rest>` with a state byte of the table
\* yields a record whose tcomm is the bytes between the first '(' and the last ')'
\* and whose state is the variant of the byte after the space after that ')'.
C2_TcommFirstToLastParen ==
    \A k \in Visited :
        LET e == proc[k] IN
        (/\ ReadableEntry(e)
         /\ ValidUtf8(e.cmdline.bytes) /\ ValidUtf8(e.stat.bytes)
         /\ CanonicalStat(e.stat.bytes)
         /\ SpecStateByte(e.stat.bytes) \in DOMAIN StateTable)
        => \E j \in RecordsOf(e) :
              /\ processes[j].stats.tcomm = SpecTcomm(e.stat.bytes)
              /\ processes[j].stats.state = StateTable[SpecStateByte(e.stat.bytes)]

\* C3: a PID whose cmdline or stat file cannot be read, or whose stat line fails
\* the parser of section 4.2, is skipped: the scan does not abort on it, and
\* every PID that reads and parses cleanly is in the snapshot.
C3_FailingPidSkipped ==
    /\ pc = "panic" => ~PerPidFailure(proc[idx])
    /\ pc = "gui" =>
          \A k \in 1..Len(proc) :
              (~proc[k].err /\ scan_entry(proc[k]).kind = "push")
                  => RecordsOf(proc[k]) # {}

\* C4: the cmdline of a record is its cmdline file with every NUL replaced by a
\* space and the trailing space trimmed.
C4_CmdlineTrimmed ==
    \A k \in Visited :
        \A j \in RecordsOf(proc[k]) :
            processes[j].cmdline = SpecCmdline(proc[k].cmdline.bytes)

\* C5: every record's state is one of the six variants; and for a stat line
\* `<pid> (<tcomm>) <b> <rest>` whose tcomm holds no ')', the record's state is the
\* table's variant of b, and a b outside the table makes the parse fail.
C5_StateByTable ==
    /\ \A j \in 1..Len(processes) : processes[j].stats.state \in StateVariants
    /\ \A k \in Visited :
          LET e == proc[k]
              s == e.stat.bytes
          IN  (/\ ReadableEntry(e)
               /\ ValidUtf8(e.cmdline.bytes) /\ ValidUtf8(s)
               /\ CanonicalStat(s)
               /\ Cardinality({i \in 1..Len(s) : s[i] = RPAREN}) = 1)
              => IF SpecStateByte(s) \in DOMAIN StateTable
                 THEN \E j \in RecordsOf(e) :
                         processes[j].stats.state = StateTable[SpecStateByte(s)]
                 ELSE pc = "panic" /\ k = idx /\ RecordsOf(e) = {}

\* C5 witness: the snapshot of a directory whose one stat line has state byte Z.
C5_Witness ==
    /\ pc = "gui"
    /\ Len(processes) = 1
    /\ processes[1].stats.state = "Zombie"
    /\ SpecStateByte(proc[1].stat.bytes) = Ord("Z")

\* C6: the list of a frame is a sub-sequence of the snapshot: its rows are rows
\* of the snapshot taken in increasing position, none twice.
C6_ViewIsSubsequence ==
    rendered =>
        \E f \in [1..Len(view) -> 1..Len(processes)] :
            /\ \A j \in 1..Len(view) : view[j] = processes[f[j]]
            /\ \A j, k \in 1..Len(view) : j < k => f[j] < f[k]

\* C6 witness: pids [10, 101, 22] and the text "10" give [10, 101].
C6_Witness ==
    /\ rendered /\ search_text = Bytes("10")
    /\ Len(processes) = 3
    /\ processes[1].pid = 10 /\ processes[2].pid = 101 /\ processes[3].pid = 22
    /\ Len(view) = 2 /\ view[1].pid = 10 /\ view[2].pid = 101

\* C7: the records built so far are, in enumeration order, one per visited entry
\* with a decimal name, with that number as pid; and the scan never aborts on an
\* entry whose name is not a number.
C7_NumericEntriesInOrder ==
    /\ LET numeric == SelectSeq(SubSeq(proc, 1, idx - 1),
                                LAMBDA e : ~e.err /\ IsDecimalName(e.name))
       IN  /\ Len(processes) = Len(numeric)
           /\ \A k \in 1..Len(numeric) : to_string(processes[k].pid) = numeric[k].name
    /\ pc = "panic" => (proc[idx].err \/ IsDecimalName(proc[idx].name))

\* C7 witness: `self` enumerated between two processes, both in the snapshot.
C7_Witness ==
    /\ pc = "gui"
    /\ Len(proc) = 3 /\ proc[2].name = Bytes("self")
    /\ Len(processes) = 2
    /\ processes[1].pid = 101 /\ processes[2].pid = 22

\* C8: an entry that scans cleanly once its bytes are decoded lossily is never
\* what the scan aborts on: it is in the snapshot.
C8_NonUtf8Tolerated ==
    \A k \in Visited :
        LET e == proc[k]
            lossy == [e EXCEPT !.cmdline = Lossy(e.cmdline), !.stat = Lossy(e.stat)]
        IN  (/\ ReadableEntry(e)
             /\ ~(ValidUtf8(e.cmdline.bytes) /\ ValidUtf8(e.stat.bytes))
             /\ scan_entry(lossy).kind = "push")
            => RecordsOf(e) # {}

\* C9: the list of every frame is the snapshot filtered by the search text of
\* that frame, and a frame that leaves the text alone leaves the list alone.
C9_ViewFollowsSearchText ==
    [][/\ rendered' => view' = FilterBy(processes', search_text')
       /\ (rendered /\ search_text' = search_text) => view' = view]_vars

\* C9 witness: after a change of text, a frame lists the one match of "nginx".
C9_Witness ==
    /\ rendered /\ search_text = Bytes("nginx")
    /\ Len(processes) = 3
    /\ Len(view) = 1 /\ view[1].pid = 22

\* C10: once the App is built, no step changes the snapshot.
C10_SnapshotImmutable ==
    [][pc = "gui" => processes' = processes]_vars

\* C10 witness: a frame that lists nothing of a three-process snapshot.
C10_Witness ==
    /\ pc = "gui" /\ rendered /\ search_text = Bytes("S")
    /\ Len(processes) = 3
    /\ view = <<>>

====
